---- MODULE Spec2Model ----
(***************************************************************************)
(* A model of py/sync_examples.py, the generator that turns the annotated  *)
(* example files listed in examples/tour.conf into markdown pages.         *)
(*                                                                         *)
(* Text is a sequence of atoms.  An atom is a single character ("a", " ",  *)
(* "\n", "-", ...) wherever the code inspects characters (the manifest,    *)
(* file names, example files, keywords, the front-matter rule and the code *)
(* fence); a fixed piece of a page template that no operation of the       *)
(* program ever looks into is one atom holding the whole piece.            *)
(***************************************************************************)
EXTENDS Integers, Sequences, FiniteSets

VARIABLES
    manifest,   \* main: the lines of tour.conf, as read_lines returns them
    filenames,  \* main: local filenames
    examples,   \* main: local examples
    pc,         \* main: position in main
    idx,        \* main: position of the running loop in its list
    calls,      \* main: the load_example and write_file calls so far
    disk,       \* main: what each written path holds
    alerts,     \* main: the slugs printed in thumbnail alerts
    contents,   \* load_example: the text of the file read
    lpc,        \* load_example / to_md: position
    loaded,     \* load_example: its outcome
    page,       \* to_md: its result
    line,       \* get_keywords_if_available: its argument
    kpc,        \* get_keywords_if_available: position
    kwds        \* get_keywords_if_available: its result

vars == <<manifest, filenames, examples, pc, idx, calls, disk, alerts,
          contents, lpc, loaded, page, line, kpc, kwds>>
mainVars == <<manifest, filenames, examples, pc, idx, calls, disk, alerts>>
loadVars == <<contents, lpc, loaded, page>>
kwVars == <<line, kpc, kwds>>

(***************************************************************************)
(* Bounds of the model.                                                    *)
(***************************************************************************)
MaxManifest == 3
MaxHeader == 3
MaxLine == 5

(***************************************************************************)
(* The str methods the program uses.                                       *)
(***************************************************************************)
NL == "\n"
\* The backquote character, which a TLA+ string cannot hold, and the en space
\* (U+2002) that follows a space in the link separators of the templates.
BQ == "<backquote>"
EnSpace == "<en space>"
Whitespace == {" ", "\n", "\t", "\r"}

RECURSIVE LStrip(_, _)
LStrip(s, chars) ==
    IF s # <<>> /\ Head(s) \in chars THEN LStrip(Tail(s), chars) ELSE s

RECURSIVE RStrip(_, _)
RStrip(s, chars) ==
    IF s # <<>> /\ s[Len(s)] \in chars
    THEN RStrip(SubSeq(s, 1, Len(s) - 1), chars)
    ELSE s

\* str.strip() and str.strip(chars)
str_strip(s, chars) == RStrip(LStrip(s, chars), chars)

\* str.find(pat) + 1: the first place pat occurs in s, 0 when it does not
str_find(s, pat) ==
    LET hits == {i \in 1..(Len(s) - Len(pat) + 1) :
                    SubSeq(s, i, i + Len(pat) - 1) = pat}
    IN IF hits = {} THEN 0 ELSE CHOOSE i \in hits : \A j \in hits : i <= j

\* str.split(sep)
RECURSIVE str_split(_, _)
str_split(s, sep) ==
    LET i == str_find(s, sep)
    IN IF i = 0 THEN <<s>>
       ELSE <<SubSeq(s, 1, i - 1)>> \o str_split(SubSeq(s, i + Len(sep), Len(s)), sep)

\* str.split(sep, maxsplit=1)
str_split1(s, sep) ==
    LET i == str_find(s, sep)
    IN IF i = 0 THEN <<s>>
       ELSE <<SubSeq(s, 1, i - 1), SubSeq(s, i + Len(sep), Len(s))>>

\* str.splitlines(): no entry for the empty text, none after a final line break
str_splitlines(s) ==
    LET parts == str_split(s, <<NL>>)
    IN IF parts[Len(parts)] = <<>> THEN SubSeq(parts, 1, Len(parts) - 1) ELSE parts

\* sep.join(items)
RECURSIVE str_join(_, _)
str_join(items, sep) ==
    IF items = <<>> THEN <<>>
    ELSE IF Len(items) = 1 THEN items[1]
    ELSE items[1] \o sep \o str_join(Tail(items), sep)

\* str.replace(old, new) for single characters
str_replace(s, old, new) == [i \in 1..Len(s) |-> IF s[i] = old THEN new ELSE s[i]]

\* str.startswith(prefix)
str_startswith(s, prefix) ==
    Len(s) >= Len(prefix) /\ SubSeq(s, 1, Len(prefix)) = prefix

\* The code point of a character, for the comparison of strings in sorted().
Ord(c) ==
    CASE c = "\t" -> 9 [] c = "\n" -> 10 [] c = "\r" -> 13 [] c = " " -> 32
      [] c = "#" -> 35 [] c = "," -> 44 [] c = "-" -> 45 [] c = "." -> 46
      [] c = "B" -> 66 [] c = "D" -> 68 [] c = "T" -> 84 [] c = "_" -> 95
      [] c = BQ -> 96 [] c = "a" -> 97 [] c = "b" -> 98 [] c = "c" -> 99
      [] c = "d" -> 100 [] c = "p" -> 112 [] c = "x" -> 120 [] c = "y" -> 121
      [] OTHER -> 200

\* s < t for Python strings
RECURSIVE str_lt(_, _)
str_lt(s, t) ==
    IF t = <<>> THEN FALSE
    ELSE IF s = <<>> THEN TRUE
    ELSE IF Head(s) = Head(t) THEN str_lt(Tail(s), Tail(t))
    ELSE Ord(Head(s)) < Ord(Head(t))

(***************************************************************************)
(* strip_comment and get_keywords_if_available.                            *)
(***************************************************************************)
strip_comment(l) == str_strip(l, {" ", "#"})

get_keywords_NoTrim(l) ==
    LET keywords == str_split(l, <<",">>)
        period_in_line == \E i \in 1..Len(l) : l[i] = "."
        spaces_in_keywords ==
            \E i \in 1..Len(keywords) : \E j \in 1..Len(keywords[i]) : keywords[i][j] = " "
    IN IF period_in_line \/ spaces_in_keywords THEN <<>> ELSE keywords

get_keywords_if_available(l) ==
    LET raw == str_split(l, <<",">>)
        keywords == [i \in 1..Len(raw) |-> str_strip(raw[i], Whitespace)]
        period_in_line == \E i \in 1..Len(l) : l[i] = "."
        spaces_in_keywords ==
            \E i \in 1..Len(keywords) : \E j \in 1..Len(keywords[i]) : keywords[i][j] = " "
    IN IF period_in_line \/ spaces_in_keywords THEN <<>> ELSE keywords

(***************************************************************************)
(* class Example.                                                          *)
(***************************************************************************)
\* The greatest place c occurs in s, 0 when it does not
str_rfind(s, c) ==
    LET hits == {i \in 1..Len(s) : s[i] = c}
    IN IF hits = {} THEN 0 ELSE CHOOSE i \in hits : \A j \in hits : j <= i

\* os.path.splitext(p)[0]: p up to its last dot, when that dot lies in the last
\* path component and some character other than a dot precedes it there
splitext_root(p) ==
    LET sepIndex == str_rfind(p, "/")
        dotIndex == str_rfind(p, ".")
    IN IF dotIndex > sepIndex
          /\ \E k \in (sepIndex + 1)..(dotIndex - 1) : p[k] # "."
       THEN SubSeq(p, 1, dotIndex - 1)
       ELSE p

Example(filename, title, description, keywords, code) ==
    LET name == splitext_root(filename)
    IN [name |-> name,
        slug |-> str_replace(name, "_", "-"),
        filename |-> filename,
        title |-> title,
        subtitle |-> str_strip(str_split(description, <<NL>>)[1], Whitespace),
        description |-> description,
        keywords |-> keywords,
        code |-> code]

\* The fixed pieces of the page template of to_md
Dashes == <<"-", "-", "-">>
Fence == <<BQ, BQ, BQ>>
TitleLabel == "title: "
KeywordsLabel == "keywords:"
KeywordItem == "  - "
ImportLine == "import useBaseUrl from '@docusaurus/useBaseUrl';"
Indent8 == "        "
Indent12 == "            "
TagsLabel == "**Tags**:"
TagLinkOpen == "<a href={useBaseUrl('docs/examples/examples-tags#"
LinkMid == "')}>"
LinkClose == "</a>"
CoverOpen == "<div className='cover' style={{ backgroundImage: 'url(' + require('./assets/"
CoverClose == ".png').default + ')' }} />"

KeywordsHeader(e) ==
    LET keywords == str_join([i \in 1..Len(e.keywords) |-> <<KeywordItem>> \o e.keywords[i]],
                             <<NL>>)
    IN Dashes \o <<NL, TitleLabel>> \o e.title \o <<NL, KeywordsLabel, NL>> \o keywords
         \o <<NL>> \o Dashes \o <<NL, NL, ImportLine, NL, NL, Indent8>>

KeywordsFooter(e) ==
    LET keyword_tags == [i \in 1..Len(e.keywords) |->
                            <<TagLinkOpen>> \o e.keywords[i] \o <<LinkMid>>
                              \o e.keywords[i] \o <<LinkClose>>]
        keywords_links == str_join(keyword_tags, <<" ", EnSpace>>)
    IN <<NL, NL, TagsLabel, " ", EnSpace>> \o keywords_links \o <<NL, NL, Indent12>>

PlainHeader(e) == Dashes \o <<NL, TitleLabel>> \o e.title \o <<NL>> \o Dashes \o <<NL, Indent8>>

PageBody(e) ==
    <<NL, NL>> \o e.description \o <<NL, NL, CoverOpen>> \o e.slug \o <<CoverClose, NL, NL>>
      \o Fence \o <<"p", "y", NL>> \o e.code \o <<NL>> \o Fence \o <<NL, Indent8>>

to_md_AlwaysKeywords(e) == KeywordsHeader(e) \o PageBody(e) \o KeywordsFooter(e)

to_md(e) ==
    IF e.keywords # <<>>
    THEN KeywordsHeader(e) \o PageBody(e) \o KeywordsFooter(e)
    ELSE PlainHeader(e) \o PageBody(e)

(***************************************************************************)
(* read_file and load_example.  A directory is a function from the names   *)
(* of its files to their text.                                             *)
(***************************************************************************)
read_file(dir, filename) ==
    IF filename \in DOMAIN dir
    THEN [ok |-> TRUE, txt |-> dir[filename]]
    ELSE [ok |-> FALSE, err |-> "OSError"]

Raise(err) == [ok |-> FALSE, err |-> err]

\* load_example taking the code from the last part of the split
load_example_LastPart(dir, filename) ==
    LET file == read_file(dir, filename)
        parts == str_split1(file.txt, Dashes)
        header == str_splitlines(str_strip(parts[1], Whitespace))
        code == str_strip(parts[Len(parts)], Whitespace)
        title == strip_comment(header[1])
        description == [i \in 1..(Len(header) - 1) |-> strip_comment(header[i + 1])]
    IN IF ~file.ok THEN file
       ELSE IF Len(header) < 1 THEN Raise("IndexError")
       ELSE IF Len(description) < 2 THEN Raise("IndexError")
       ELSE [ok |-> TRUE,
             e |-> Example(filename, title, str_join(description, <<NL>>),
                           get_keywords_if_available(description[Len(description) - 1]),
                           code)]

load_example(dir, filename) ==
    LET file == read_file(dir, filename)
        parts == str_split1(file.txt, Dashes)
        header == str_splitlines(str_strip(parts[1], Whitespace))
        code == str_strip(parts[2], Whitespace)
        title == strip_comment(header[1])
        description == [i \in 1..(Len(header) - 1) |-> strip_comment(header[i + 1])]
    IN IF ~file.ok THEN file
       ELSE IF Len(parts) < 2 THEN Raise("IndexError")
       ELSE IF Len(header) < 1 THEN Raise("IndexError")
       ELSE IF Len(description) < 2 THEN Raise("IndexError")
       ELSE [ok |-> TRUE,
             e |-> Example(filename, title, str_join(description, <<NL>>),
                           get_keywords_if_available(description[Len(description) - 1]),
                           code)]

(***************************************************************************)
(* make_toc, make_gallery, index_examples and make_examples_by_keyword.    *)
(***************************************************************************)
TocHeader ==
    Dashes \o <<NL, "title: All Examples", NL, "slug: /examples/all", NL>> \o Dashes
      \o <<NL, NL, ImportLine, NL, NL>>
TocLinkOpen == "- <a href={useBaseUrl('docs/examples/"
TocLinkClose == "</a>: "

TocEntry(e) ==
    <<TocLinkOpen>> \o e.slug \o <<LinkMid>> \o e.title \o <<TocLinkClose>> \o e.subtitle

\* Insertion sort of a list of examples by title: what sorted(..., key=title) gives
RECURSIVE InsertByTitle(_, _)
InsertByTitle(es, e) ==
    IF es = <<>> THEN <<e>>
    ELSE IF str_lt(e.title, Head(es).title) THEN <<e>> \o es
    ELSE <<Head(es)>> \o InsertByTitle(Tail(es), e)

RECURSIVE SortedByTitle(_)
SortedByTitle(es) ==
    IF es = <<>> THEN <<>>
    ELSE InsertByTitle(SortedByTitle(SubSeq(es, 1, Len(es) - 1)), es[Len(es)])

make_toc_SortedByTitle(es) ==
    TocHeader \o str_join([i \in 1..Len(es) |-> TocEntry(SortedByTitle(es)[i])], <<NL, NL>>)

make_toc(es) ==
    TocHeader \o str_join([i \in 1..Len(es) |-> TocEntry(es[i])], <<NL, NL>>)

GalleryHeader ==
    Dashes \o <<NL, "title: Gallery", NL, "slug: /examples", NL>> \o Dashes
      \o <<NL, NL, ImportLine, NL>>
ThumbnailOpen == "<a class='thumbnail' href={useBaseUrl('docs/examples/"
ThumbnailMid == "')}><div style={{backgroundImage:'url(' + require('./assets/"
ThumbnailClose == ".png').default + ')'}}></div>"

make_gallery_thumbnail(e) ==
    <<ThumbnailOpen>> \o e.slug \o <<ThumbnailMid>> \o e.slug \o <<ThumbnailClose>>
      \o e.title \o <<LinkClose>>

make_gallery(es) ==
    GalleryHeader \o <<NL>>
      \o str_join([i \in 1..Len(es) |-> make_gallery_thumbnail(es[i])], <<NL, NL>>)

GroupHeading == "### "
GroupLinkOpen == "<a href={useBaseUrl('docs/examples/"

make_keyword_group(keyword, es) ==
    LET example_links == [i \in 1..Len(es) |->
                             <<GroupLinkOpen>> \o es[i].slug \o <<LinkMid>> \o es[i].title
                               \o <<LinkClose>>]
    IN <<GroupHeading>> \o keyword \o <<NL>> \o str_join(example_links, <<" ", EnSpace>>)
         \o <<NL>>

\* keywords_dict[k].append(e) on a defaultdict(list)
DictAppend(d, k, e) ==
    [j \in DOMAIN d \cup {k} |->
        IF j = k THEN (IF k \in DOMAIN d THEN Append(d[k], e) ELSE <<e>>) ELSE d[j]]

RECURSIVE AddKeywords(_, _, _)
AddKeywords(d, e, ks) ==
    IF ks = <<>> THEN d ELSE AddKeywords(DictAppend(d, Head(ks), e), e, Tail(ks))

RECURSIVE AddExamples(_, _)
AddExamples(d, es) ==
    IF es = <<>> THEN d ELSE AddExamples(AddKeywords(d, Head(es), Head(es).keywords), Tail(es))

\* sorted(d.items()): the keys are distinct, so the items are ordered by key
RECURSIVE SortedItems(_, _)
SortedItems(d, keys) ==
    IF keys = {} THEN <<>>
    ELSE LET k == CHOOSE x \in keys : \A y \in keys \ {x} : str_lt(x, y)
         IN << <<k, d[k]>> >> \o SortedItems(d, keys \ {k})

index_examples(es) ==
    LET keywords_dict == AddExamples(<<>>, es)
    IN SortedItems(keywords_dict, DOMAIN keywords_dict)

TagsHeader ==
    Dashes \o <<NL, "title: Tags", NL>> \o Dashes \o <<NL, NL, ImportLine, NL>>

make_examples_by_keyword(es) ==
    LET keywords == index_examples(es)
    IN TagsHeader \o <<NL>>
         \o str_join([i \in 1..Len(keywords) |->
                         make_keyword_group(keywords[i][1], keywords[i][2])], <<NL, NL>>)

(***************************************************************************)
(* main.                                                                   *)
(***************************************************************************)
ExampleMdDir == "website/docs/examples/"
WebsiteDir == "website/"
PagePath(slug) == <<ExampleMdDir>> \o slug \o <<".", "m", "d">>
IndexSlug == <<"i", "n", "d", "e", "x">>
AllSlug == <<"a", "l", "l">>
TagsSlug == <<"e", "x", "a", "m", "p", "l", "e", "s", "-", "t", "a", "g", "s">>
ExamplesJsPath == <<WebsiteDir, "e", "x", "a", "m", "p", "l", "e", "s", ".", "j", "s">>

\* list.insert(i, x), i counted from 0
list_insert(l, i, x) == SubSeq(l, 1, i) \o <<x>> \o SubSeq(l, i + 1, Len(l))

example_items(es) ==
    list_insert(list_insert(list_insert([i \in 1..Len(es) |-> es[i].slug],
                                        0, IndexSlug), 1, AllSlug), 2, TagsSlug)

JsItemOpen == "{\"slug\": \""
JsItemClose == "\"}"

\* f'module.exports={json.dumps(example_items)}'
examples_js(items) ==
    <<"module.exports=", "[">>
      \o str_join([i \in 1..Len(items) |-> <<JsItemOpen>> \o items[i] \o <<JsItemClose>>],
                  <<",", " ">>)
      \o <<"]">>

\* The lines of tour.conf that main keeps
manifest_filenames(lines) ==
    LET kept == SelectSeq(lines,
                          LAMBDA l : ~str_startswith(str_strip(l, Whitespace), <<"#">>))
    IN [i \in 1..Len(kept) |-> str_strip(kept[i], Whitespace)]

\* The order of the statements of main that follow the loading of the examples
StepAfter_SpecOrder(p) ==
    CASE p = "pages" -> "index"
      [] p = "index" -> "toc"
      [] p = "toc" -> "tags"
      [] p = "tags" -> "js"
      [] p = "js" -> "done"

StepAfter(p) ==
    CASE p = "pages" -> "js"
      [] p = "js" -> "index"
      [] p = "index" -> "toc"
      [] p = "toc" -> "tags"
      [] p = "tags" -> "done"

\* write_file(p, txt)
write_file(p, txt) ==
    /\ calls' = Append(calls, [op |-> "write_file", arg |-> p, txt |-> txt])
    /\ disk' = [q \in DOMAIN disk \cup {p} |-> IF q = p THEN txt ELSE disk[q]]

(***************************************************************************)
(* get_keywords_if_available on every line of at most MaxLine characters.  *)
(***************************************************************************)
LineAlphabet == {"a", "b", ",", " ", "."}

RECURSIVE SeqsUpTo(_, _)
SeqsUpTo(S, n) ==
    IF n = 0 THEN {<<>>}
    ELSE LET shorter == SeqsUpTo(S, n - 1)
         IN shorter \cup {Append(s, x) : s \in {t \in shorter : Len(t) = n - 1}, x \in S}

NoMain ==
    /\ manifest = <<>> /\ filenames = <<>> /\ examples = <<>> /\ pc = "off"
    /\ idx = 0 /\ calls = <<>> /\ disk = <<>> /\ alerts = <<>>

NoLoad == contents = <<>> /\ lpc = "off" /\ loaded = [ok |-> FALSE] /\ page = <<>>

NoKw == line = <<>> /\ kpc = "off" /\ kwds = <<>>

KwInit ==
    /\ line \in SeqsUpTo(LineAlphabet, MaxLine)
    /\ kpc = "call"
    /\ kwds = <<>>
    /\ NoMain /\ NoLoad

GetKeywords ==
    /\ kpc = "call"
    /\ kwds' = get_keywords_if_available(line)
    /\ kpc' = "ret"
    /\ UNCHANGED <<line, mainVars, loadVars>>

KwNext == GetKeywords

SpecKw == KwInit /\ [][KwNext]_vars

\* C6: get_keywords_if_available(line) is the empty list when line holds a period
\* or some comma-separated token of it, trimmed, holds a space; otherwise it is
\* the trimmed comma-separated tokens of line, in their order.
CommaPlaces(l) == {i \in 1..Len(l) : l[i] = ","}
TokenFirst(l, k) ==
    IF k = 1 THEN 1
    ELSE 1 + CHOOSE i \in CommaPlaces(l) : Cardinality({j \in CommaPlaces(l) : j < i}) = k - 2
TokenLast(l, k) ==
    IF k = Cardinality(CommaPlaces(l)) + 1 THEN Len(l)
    ELSE (CHOOSE i \in CommaPlaces(l) : Cardinality({j \in CommaPlaces(l) : j < i}) = k - 1) - 1
TrimmedToken(l, k) ==
    LET inked == {i \in TokenFirst(l, k)..TokenLast(l, k) : l[i] \notin Whitespace}
    IN IF inked = {} THEN <<>>
       ELSE SubSeq(l, CHOOSE i \in inked : \A j \in inked : i <= j,
                      CHOOSE i \in inked : \A j \in inked : j <= i)
TrimmedTokens(l) == [k \in 1..(Cardinality(CommaPlaces(l)) + 1) |-> TrimmedToken(l, k)]
HasChar(s, c) == \E i \in 1..Len(s) : s[i] = c
C6_KeywordsOrProse ==
    kpc = "ret" =>
        IF HasChar(line, ".")
           \/ \E k \in 1..Len(TrimmedTokens(line)) : HasChar(TrimmedTokens(line)[k], " ")
        THEN kwds = <<>>
        ELSE kwds = TrimmedTokens(line)

C6_Witness ==
    /\ kpc = "ret"
    /\ line = <<"a", ",", " ", "b">>
    /\ kwds = << <<"a">>, <<"b">> >>

(***************************************************************************)
(* load_example, then to_md of what it returns, on the example files made  *)
(* of at most MaxHeader header lines, a separator (or none) and a body.    *)
(***************************************************************************)
ExampleFile == <<"f", ".", "p", "y">>

HeaderLinePool ==
    { <<"#", " ", "T">>,
      <<"#", " ", "d", ".">>,
      <<"#", " ", "a", ",", " ", "b">>,
      <<"#", " ", "a", ",", ",", "b">>,
      <<"#">>,
      <<"#", " ", "x", " ", "y">> }

SeparatorPool ==
    { <<NL, "-", "-", "-", NL>>,
      <<NL, "#", " ", "-", "-", "-", NL>>,
      <<NL>> }

CodePool ==
    { <<"c">>,
      <<"c", NL, "-", "-", "-", NL, "c", NL>> }

LoadInit ==
    /\ contents \in {str_join(h, <<NL>>) \o sep \o code :
                        h \in SeqsUpTo(HeaderLinePool, MaxHeader),
                        sep \in SeparatorPool, code \in CodePool}
    /\ lpc = "load"
    /\ loaded = [ok |-> FALSE]
    /\ page = <<>>
    /\ NoMain /\ NoKw

LoadExample ==
    /\ lpc = "load"
    /\ loaded' = load_example([f \in {ExampleFile} |-> contents], ExampleFile)
    /\ lpc' = IF loaded'.ok THEN "loaded" ELSE "raised"
    /\ UNCHANGED <<contents, page, mainVars, kwVars>>

RenderPage ==
    /\ lpc = "loaded"
    /\ page' = to_md(loaded.e)
    /\ lpc' = "rendered"
    /\ UNCHANGED <<contents, loaded, mainVars, kwVars>>

LoadNext == LoadExample \/ RenderPage

SpecLoad == LoadInit /\ [][LoadNext]_vars

CountAtom(s, a) == Cardinality({i \in 1..Len(s) : s[i] = a})
HasFrontMatter(p) == str_startswith(p, Dashes \o <<NL, TitleLabel>>)

\* C4 as stated: a page of an Example without keywords has neither a front-matter
\* block nor a Tags footer; a page of an Example with keywords has both.
C4_AsStated ==
    lpc = "rendered" =>
        IF loaded.e.keywords = <<>>
        THEN ~HasFrontMatter(page) /\ CountAtom(page, TagsLabel) = 0
        ELSE HasFrontMatter(page) /\ CountAtom(page, TagsLabel) = 1

\* C4, amended: every page starts with a front-matter block holding the title; for
\* an Example without keywords the block has no keyword list and the page has no
\* Tags footer and no import line; for an Example with keywords the block lists
\* each keyword and the page ends with a Tags footer of one link per keyword.
FrontMatterEnd(p) == 3 + str_find(SubSeq(p, 4, Len(p)), <<NL>> \o Dashes \o <<NL>>)
C4_FrontMatterAlways ==
    lpc = "rendered" =>
        LET n == Len(loaded.e.keywords)
            block == SubSeq(page, 1, FrontMatterEnd(page))
        IN /\ HasFrontMatter(page)
           /\ FrontMatterEnd(page) > 3
           /\ CountAtom(block, KeywordsLabel) = (IF n = 0 THEN 0 ELSE 1)
           /\ CountAtom(block, KeywordItem) = n
           /\ CountAtom(page, ImportLine) = (IF n = 0 THEN 0 ELSE 1)
           /\ CountAtom(page, TagsLabel) = (IF n = 0 THEN 0 ELSE 1)
           /\ CountAtom(page, TagLinkOpen) = n
           /\ n > 0 => page[Len(page)] = Indent12
           /\ \A k \in 1..n :
                 /\ str_find(block, <<KeywordItem>> \o loaded.e.keywords[k] \o <<NL>>) > 0
                 /\ str_find(page, <<TagLinkOpen>> \o loaded.e.keywords[k] \o <<LinkMid>>
                                     \o loaded.e.keywords[k] \o <<LinkClose>>) > 0

C4_Witness ==
    /\ lpc = "rendered"
    /\ loaded.e.keywords = <<>>
    /\ HasFrontMatter(page)

\* C7: for example text with a title line, a description line and a separator,
\* load_example succeeds, and the fenced code block of the rendered page holds
\* the text after the separator, trimmed.
FenceOpen == Fence \o <<"p", "y", NL>>
ExtractCode(p) ==
    LET rest == SubSeq(p, str_find(p, FenceOpen) + Len(FenceOpen), Len(p))
    IN SubSeq(rest, 1, str_find(rest, <<NL>> \o Fence) - 1)
HeaderRegion(txt) == str_splitlines(str_strip(str_split1(txt, Dashes)[1], Whitespace))
WellFormed(txt) ==
    /\ str_find(txt, Dashes) > 0
    /\ Len(HeaderRegion(txt)) >= 2
    /\ \A k \in 1..2 : /\ str_startswith(HeaderRegion(txt)[k], <<"#">>)
                        /\ strip_comment(HeaderRegion(txt)[k]) # <<>>
C7_RoundTrip ==
    WellFormed(contents) =>
        /\ lpc # "raised"
        /\ lpc = "rendered" =>
              ExtractCode(page) = str_strip(str_split1(contents, Dashes)[2], Whitespace)

\* C10: every keyword of an Example that load_example returns is a non-empty
\* string without a space and without a period.
C10_KeywordsNonEmpty ==
    lpc \in {"loaded", "rendered"} =>
        \A k \in 1..Len(loaded.e.keywords) :
            /\ loaded.e.keywords[k] # <<>>
            /\ ~HasChar(loaded.e.keywords[k], " ")
            /\ ~HasChar(loaded.e.keywords[k], ".")

(***************************************************************************)
(* main on the manifests of at most MaxManifest lines over an examples     *)
(* directory that holds well-formed and malformed files.                   *)
(***************************************************************************)
File_a_b == <<"a", "_", "b", ".", "p", "y">>
File_a_dash_b == <<"a", "-", "b", ".", "p", "y">>
File_d == <<"d", ".", "p", "y">>
File_index == <<"i", "n", "d", "e", "x", ".", "p", "y">>
File_n == <<"n", ".", "p", "y">>
File_h == <<"h", ".", "p", "y">>
File_m == <<"m", ".", "p", "y">>

\* examples/: m.py is not in it; n.py has no separator; h.py has no header
ExampleDir ==
    [f \in {File_a_b, File_a_dash_b, File_d, File_index, File_n, File_h} |->
        CASE f = File_a_b ->
               <<"#", " ", "B", NL, "#", " ", "d", ".", NL, "#", " ", "y", ",", " ", "x", NL,
                 "#", " ", "-", "-", "-", NL, "c", NL>>
          [] f = File_a_dash_b ->
               <<"#", " ", "A", NL, "#", " ", "d", ".", NL, "#", " ", "y", NL,
                 "#", " ", "-", "-", "-", NL, "c", NL, "c", NL>>
          [] f = File_d ->
               <<"#", " ", "D", NL, "#", " ", "x", ",", " ", "x", NL,
                 "#", " ", "-", "-", "-", NL, "d", NL>>
          [] f = File_index ->
               <<"#", " ", "T", NL, "#", " ", "d", ".", NL, "#", NL,
                 "#", " ", "-", "-", "-", NL, "c", NL>>
          [] f = File_n ->
               <<"#", " ", "T", NL, "#", " ", "d", ".", NL, "c", NL>>
          [] f = File_h ->
               <<"-", "-", "-", NL, "c", NL>>]

\* The slugs that have a thumbnail in assets/
Thumbnails == { <<"a", "-", "b">> }

ManifestLinePool ==
    { File_a_b \o <<NL>>, File_a_dash_b \o <<NL>>, File_d \o <<NL>>,
      File_index \o <<NL>>, File_n \o <<NL>>,
      File_h \o <<NL>>, File_m \o <<NL>>, <<"#", " ", "c", NL>>, <<NL>> }

Init ==
    /\ manifest \in SeqsUpTo(ManifestLinePool, MaxManifest)
    /\ filenames = <<>>
    /\ examples = <<>>
    /\ pc = "start"
    /\ idx = 0
    /\ calls = <<>>
    /\ disk = <<>>
    /\ alerts = <<>>
    /\ NoLoad /\ NoKw

\* filenames = [...] (lines 166-167)
ReadManifest ==
    /\ pc = "start"
    /\ filenames' = manifest_filenames(manifest)
    /\ pc' = IF filenames' = <<>> THEN StepAfter("pages") ELSE "load"
    /\ idx' = 1
    /\ UNCHANGED <<manifest, examples, calls, disk, alerts, loadVars, kwVars>>

\* One turn of examples = [load_example(filename) for filename in filenames]
LoadNextExample ==
    /\ pc = "load"
    /\ LET r == load_example(ExampleDir, filenames[idx])
       IN /\ calls' = Append(calls, [op |-> "load_example", arg |-> filenames[idx]])
          /\ examples' = IF r.ok THEN Append(examples, r.e) ELSE examples
          /\ pc' = IF ~r.ok THEN "aborted"
                   ELSE IF idx = Len(filenames) THEN "pages" ELSE "load"
          /\ idx' = IF r.ok /\ idx < Len(filenames) THEN idx + 1 ELSE 1
    /\ UNCHANGED <<manifest, filenames, disk, alerts, loadVars, kwVars>>

\* One turn of for e in examples (lines 173-177)
WritePage ==
    /\ pc = "pages"
    /\ LET e == examples[idx]
       IN /\ write_file(PagePath(e.slug), to_md(e))
          /\ alerts' = IF e.slug \in Thumbnails THEN alerts ELSE Append(alerts, e.slug)
    /\ pc' = IF idx = Len(examples) THEN StepAfter("pages") ELSE "pages"
    /\ idx' = IF idx = Len(examples) THEN 1 ELSE idx + 1
    /\ UNCHANGED <<manifest, filenames, examples, loadVars, kwVars>>

\* lines 179-183
WriteExamplesJs ==
    /\ pc = "js"
    /\ write_file(ExamplesJsPath, examples_js(example_items(examples)))
    /\ pc' = StepAfter("js")
    /\ UNCHANGED <<manifest, filenames, examples, idx, alerts, loadVars, kwVars>>

\* line 184
WriteGallery ==
    /\ pc = "index"
    /\ write_file(PagePath(IndexSlug), make_gallery(examples))
    /\ pc' = StepAfter("index")
    /\ UNCHANGED <<manifest, filenames, examples, idx, alerts, loadVars, kwVars>>

\* line 185
WriteToc ==
    /\ pc = "toc"
    /\ write_file(PagePath(AllSlug), make_toc(examples))
    /\ pc' = StepAfter("toc")
    /\ UNCHANGED <<manifest, filenames, examples, idx, alerts, loadVars, kwVars>>

\* line 186
WriteTags ==
    /\ pc = "tags"
    /\ write_file(PagePath(TagsSlug), make_examples_by_keyword(examples))
    /\ pc' = StepAfter("tags")
    /\ UNCHANGED <<manifest, filenames, examples, idx, alerts, loadVars, kwVars>>

Next ==
    \/ ReadManifest
    \/ LoadNextExample
    \/ WritePage
    \/ WriteExamplesJs
    \/ WriteGallery
    \/ WriteToc
    \/ WriteTags

Spec == Init /\ [][Next]_vars

Writes == SelectSeq(calls, LAMBDA c : c.op = "write_file")
Listed(lines) ==
    {str_strip(lines[i], Whitespace) : i \in 1..Len(lines)}
      \ ({<<>>} \cup {l \in {str_strip(lines[i], Whitespace) : i \in 1..Len(lines)} :
                        str_startswith(l, <<"#">>)})
Malformed(f) ==
    \/ f \notin DOMAIN ExampleDir
    \/ str_find(ExampleDir[f], Dashes) = 0
    \/ HeaderRegion(ExampleDir[f]) = <<>>

\* C1: when a file the manifest lists is missing or malformed (no separator, or
\* no header), the run writes nothing and never gets past the loading of the
\* examples, where it can only end aborted; every load_example call comes
\* before the first write_file call.
C1_NoPartialOutput ==
    /\ (\E f \in Listed(manifest) : Malformed(f)) =>
           /\ Writes = <<>> /\ disk = <<>>
           /\ pc \in {"start", "load", "aborted"}
    /\ pc = "aborted" => Writes = <<>>
    /\ \A i, j \in 1..Len(calls) :
           calls[i].op = "write_file" /\ calls[j].op = "load_example" => j < i

C1_Witness ==
    /\ pc = "aborted"
    /\ examples # <<>>
    /\ \E f \in Listed(manifest) : Malformed(f)
    /\ disk = <<>>

\* C2 as stated: in a completed run the example pages are written first, then
\* index.md, all.md and examples-tags.md, and examples.js after those.
C2_AsStated ==
    pc = "done" =>
        LET n == Len(examples)
        IN /\ Len(Writes) = n + 4
           /\ \A i \in 1..n : Writes[i].arg = PagePath(examples[i].slug)
           /\ Writes[n + 1].arg = PagePath(IndexSlug)
           /\ Writes[n + 2].arg = PagePath(AllSlug)
           /\ Writes[n + 3].arg = PagePath(TagsSlug)
           /\ Writes[n + 4].arg = ExamplesJsPath

\* C2, amended: the writes of a run are, in this order, the example pages in
\* manifest order, examples.js, index.md, all.md and examples-tags.md; a
\* completed run has made all of them.
WritePathAt(k) ==
    LET n == Len(examples)
    IN IF k <= n THEN PagePath(examples[k].slug)
       ELSE IF k = n + 1 THEN ExamplesJsPath
       ELSE IF k = n + 2 THEN PagePath(IndexSlug)
       ELSE IF k = n + 3 THEN PagePath(AllSlug)
       ELSE PagePath(TagsSlug)
C2_DataFileBeforeIndexes ==
    /\ Len(Writes) <= Len(examples) + 4
    /\ \A k \in 1..Len(Writes) : Writes[k].arg = WritePathAt(k)
    /\ pc = "done" => Len(Writes) = Len(examples) + 4

C2_Witness ==
    /\ pc = "done"
    /\ Len(examples) >= 2
    /\ Writes[Len(examples) + 1].arg = ExamplesJsPath
    /\ Writes[Len(Writes)].arg = PagePath(TagsSlug)

\* C3: the filenames main loads are the manifest's lines, trimmed, without the
\* comment lines and the blank lines, in file order; a blank line is never passed
\* to load_example.
ExpectedFilenames(lines) ==
    LET trimmed == [i \in 1..Len(lines) |-> str_strip(lines[i], Whitespace)]
    IN SelectSeq(trimmed, LAMBDA l : l # <<>> /\ l[1] # "#")
C3_BlankLinesExcluded ==
    /\ pc # "start" => filenames = ExpectedFilenames(manifest)
    /\ \A i \in 1..Len(calls) : calls[i].op = "load_example" => calls[i].arg # <<>>

\* C5: the tag index has one section per keyword that some example carries, in
\* lexicographic order of the keywords, and the section of keyword k lists the
\* examples that carry k, each once, in manifest order.
Carries(e, k) == \E i \in 1..Len(e.keywords) : e.keywords[i] = k
C5_TagIndexSections ==
    pc = "done" =>
        LET sections == index_examples(examples)
        IN /\ {sections[s][1] : s \in 1..Len(sections)}
                = {k \in UNION {{e.keywords[i] : i \in 1..Len(e.keywords)} :
                                   e \in {examples[j] : j \in 1..Len(examples)}} : TRUE}
           /\ \A s, t \in 1..Len(sections) : s < t => str_lt(sections[s][1], sections[t][1])
           /\ \A s \in 1..Len(sections) :
                  sections[s][2] = SelectSeq(examples, LAMBDA e : Carries(e, sections[s][1]))

\* C8: in a completed run the TOC and the gallery hold one entry per manifest
\* file, in manifest order, and examples.js lists index, all, examples-tags and
\* then the slugs of the manifest files in manifest order.
AtomPlaces(t, a) == {i \in 1..Len(t) : t[i] = a}
NthPlace(S, k) == CHOOSE i \in S : Cardinality({j \in S : j < i}) = k - 1
TextBetween(t, i, close) ==
    LET rest == SubSeq(t, i + 1, Len(t))
    IN SubSeq(rest, 1, str_find(rest, <<close>>) - 1)
EntrySlugs(t, open, close) ==
    [k \in 1..Cardinality(AtomPlaces(t, open)) |->
        TextBetween(t, NthPlace(AtomPlaces(t, open), k), close)]
SlugOf(f) == str_replace(splitext_root(f), "_", "-")
C8_ManifestOrderKept ==
    pc = "done" =>
        LET slugs == [i \in 1..Len(filenames) |-> SlugOf(filenames[i])]
        IN /\ EntrySlugs(disk[PagePath(AllSlug)], TocLinkOpen, LinkMid) = slugs
           /\ EntrySlugs(disk[PagePath(IndexSlug)], ThumbnailOpen, ThumbnailMid) = slugs
           /\ EntrySlugs(disk[ExamplesJsPath], JsItemOpen, JsItemClose)
                = <<IndexSlug, AllSlug, TagsSlug>> \o slugs

C8_Witness ==
    /\ pc = "done"
    /\ Len(filenames) >= 2
    /\ str_lt(examples[2].title, examples[1].title)
    /\ EntrySlugs(disk[PagePath(AllSlug)], TocLinkOpen, LinkMid)[1] = SlugOf(filenames[1])

\* C9: after a completed run on a manifest of pairwise distinct filenames, the
\* page file of every listed example holds that example's own page.
C9_PagesNotOverwritten ==
    (pc = "done" /\ \A i, j \in 1..Len(filenames) : i # j => filenames[i] # filenames[j]) =>
        \A i \in 1..Len(examples) : disk[PagePath(examples[i].slug)] = to_md(examples[i])

====
